---- MODULE Spec2Model ----
(***************************************************************************)
(* The example notebooks and CI workflows of the repository, as linear     *)
(* programs of statements (notebook cells) and steps (workflow jobs) that  *)
(* call external services: the workspace, the tracking service, the        *)
(* container service, cloud storage, the shell.                            *)
(*                                                                         *)
(* A notebook is executed cell by cell in a kernel; a statement that reads *)
(* an unbound name raises NameError, an external call may raise, and a     *)
(* raise ends the execution (no cell has a try/except).  A workflow job is *)
(* started by an event and runs its steps in order until one fails.        *)
(***************************************************************************)
EXTENDS Naturals, Sequences, FiniteSets, TLC

VARIABLES
    focus,      \* the examples that are executed in this behaviour
    budget,     \* executions allowed per example in this behaviour
    faults,     \* whether external calls may raise in this behaviour
    pc,         \* example -> index of the next statement / step
    status,     \* example -> "idle" | "running" | "done" | "raised"
    err,        \* example -> the error that ended the execution ("" if none)
    exec,       \* example -> number of executions started
    calls,      \* example -> calls issued by the current execution
    ns,         \* kernel -> name -> value (<<>> when unbound)
    activeRun,  \* kernel -> whether mlflow has an active run (process state)
    extFailed,  \* example -> whether an external call of it ever raised
    service,    \* state of web service 'deploy-aci-pytorch' in the workspace
    models,     \* number of registered versions of 'pytorch-birds-model'
    envs,       \* environment definitions registered in the workspace
    resWriter,  \* resource -> the example that wrote it last ("none")
    foreign,    \* example -> whether it read a resource another example wrote
    lastEvent,  \* workflow -> the last event delivered to it
    trig,       \* workflow -> the event that started its current run
    scriptRes   \* exit statuses (TRUE = 0) of the walkthrough script's commands

vars == <<focus, budget, faults, pc, status, err, exec, calls, ns, activeRun, extFailed,
          service, models, envs, resWriter, foreign, lastEvent, trig, scriptRes>>

(***************************************************************************)
(* Bounds of the model.                                                    *)
(***************************************************************************)
\* executions of one notebook (the first one and re-executions)
MaxExecutions == 2
\* commands in the walkthrough script how-to-configure-cli.sh
ScriptLen == 2

(***************************************************************************)
(* Values.  A value is a flat sequence of strings; a template is a         *)
(* sequence of literals and name references, resolved in a namespace the   *)
(* way Python evaluates an argument list or an f-string.                   *)
(***************************************************************************)
Lit(s) == <<"L", s>>
Var(n) == <<"V", n>>

Unbound == << >>

RECURSIVE Resolve(_, _)
Resolve(t, env) ==
    IF t = << >> THEN << >>
    ELSE (IF Head(t)[1] = "L" THEN <<Head(t)[2]>> ELSE env[Head(t)[2]])
         \o Resolve(Tail(t), env)

VarsOf(t) == {t[i][2] : i \in {j \in 1..Len(t) : t[j][1] = "V"}}

\* names bound to an opaque object (a module, a function, a handle)
Opaque(names, tag) == {<<n, <<Lit(tag)>>>> : n \in names}

(***************************************************************************)
(* A statement: the code cell it is in, its source line, the operation, if *)
(* it is a call of an external library or service, the names it reads, the *)
(* names it binds (with the template of the value), the arguments of the   *)
(* call, and the workspace / file resources it reads and writes.           *)
(***************************************************************************)
St(cell, line, op, ext, reads, binds, args, rreads, rwrites) ==
    [cell |-> cell, line |-> line, op |-> op, ext |-> ext, reads |-> reads,
     binds |-> binds, args |-> args, rreads |-> rreads, rwrites |-> rwrites]

\* a local statement: imports, assignments, function definitions
Py(cell, line, op, reads, binds) ==
    St(cell, line, op, FALSE, reads, binds, << >>, {}, {})

\* an external call that touches no tracked resource
Call(cell, line, op, reads, binds, args) ==
    St(cell, line, op, TRUE, reads, binds, args, {}, {})

StmtReads(s) ==
    s.reads \cup VarsOf(s.args) \cup UNION {VarsOf(b[2]) : b \in s.binds}

StmtBinds(s) == {b[1] : b \in s.binds}

(***************************************************************************)
(* The examples.                                                           *)
(***************************************************************************)
Notebooks == {"lgbm", "pytorch", "dask"}
Workflows == {"smoke", "cli"}
Examples == Notebooks \cup Workflows

\* resources of the workspace and of the file system that the examples name
Workspace == "workspace"
ConfigJson == "file:config.json"
Experiment == "experiment:lightgbm-iris-local-example"
IrisCsv == "blob:azuremlexamples/datasets/iris.csv"
ModelRes == "model:pytorch-birds-model"
RequirementsTxt == "file:deploy-with-prebuilt-docker-images/requirements.txt"
EnvRes == "environment:pytorch-deploy-prebuilt-example"
ServiceRes == "webservice:deploy-aci-pytorch"
DefaultDatastore == "datastore:default"
NycTlc == "blob:azureopendatastorage/nyctlc"
Compute == "compute"
Resources ==
    {Workspace, ConfigJson, Experiment, IrisCsv, ModelRes, RequirementsTxt,
     EnvRes, ServiceRes, DefaultDatastore, NycTlc, Compute}

(***************************************************************************)
(* train-lightgbm-local.ipynb                                              *)
(***************************************************************************)
SplitNames == {"X_train", "X_test", "y_train", "y_test"}

LgbmSetup ==
    << Call(1, 27, "!pip install", {}, {},
            <<Lit("--upgrade numpy pandas scikit-learn lightgbm")>>),
       Py(2, 45, "import", {}, Opaque({"mlflow", "Workspace"}, "module")),
       St(2, 48, "Workspace.from_config", TRUE, {"Workspace"},
          Opaque({"ws"}, "Workspace"), << >>, {ConfigJson, Workspace}, {}),
       Call(2, 49, "mlflow.set_tracking_uri", {"mlflow"}, {}, <<Var("ws")>>),
       St(2, 50, "mlflow.set_experiment", TRUE, {"mlflow"}, {},
          <<Lit("lightgbm-iris-local-example")>>, {}, {Experiment}) >>

\* the load-data cells without the read that binds df
LgbmLoadDataNoRead ==
    << Py(3, 68, "assign", {},
          {<<"data_uri",
             <<Lit("https://azuremlexamples.blob.core.windows.net/datasets/iris.csv")>>>>}),
       Py(4, 77, "import", {}, Opaque({"pd"}, "module")) >>

LgbmLoadData ==
    << Py(3, 68, "assign", {},
          {<<"data_uri",
             <<Lit("https://azuremlexamples.blob.core.windows.net/datasets/iris.csv")>>>>}),
       Py(4, 77, "import", {}, Opaque({"pd"}, "module")),
       St(4, 79, "pd.read_csv", TRUE, {"pd"}, Opaque({"df"}, "DataFrame"),
          <<Var("data_uri")>>, {IrisCsv}, {}),
       Py(4, 80, "df.head", {"df"}, {}) >>

LgbmFunctions ==
    << Py(5, 98, "import",  {},
          Opaque({"time", "lgb", "log_loss", "accuracy_score", "LabelEncoder",
                  "train_test_split"}, "module")),
       Py(5, 108, "def", {},
          Opaque({"preprocess_data", "train_model", "evaluate_model"}, "function")) >>

\* the trial cell with the run ended before the evaluation metrics are logged
LgbmTrialEndEarly ==
    << Py(6, 162, "import", {}, Opaque({"accuracy_score", "log_loss"}, "module")),
       Call(6, 165, "preprocess_data",
            {"preprocess_data", "LabelEncoder", "train_test_split"},
            Opaque(SplitNames \cup {"enc"}, "array"), <<Var("df")>>),
       Py(6, 168, "assign", {}, Opaque({"params", "num_boost_round"}, "literal")),
       Call(6, 181, "mlflow.start_run", {"mlflow"}, Opaque({"run"}, "ActiveRun"), << >>),
       Call(6, 184, "mlflow.lightgbm.autolog", {"mlflow"}, {}, << >>),
       Call(6, 187, "train_model",
            {"train_model", "time", "lgb"} \cup SplitNames,
            {<<"model", <<Lit("Booster")>>>>, <<"train_time", <<Lit("seconds")>>>>},
            <<Var("params"), Var("num_boost_round")>>),
       St(6, 190, "mlflow.log_metric", TRUE, {"mlflow"}, {},
          <<Lit("training_time"), Var("train_time")>>, {}, {Experiment}),
       Call(6, 197, "mlflow.end_run", {"mlflow"}, {}, << >>),
       Call(6, 193, "evaluate_model",
            {"evaluate_model", "log_loss", "accuracy_score", "X_test", "y_test"},
            {<<"loss", <<Lit("log_loss")>>>>, <<"acc", <<Lit("accuracy_score")>>>>},
            <<Var("model")>>),
       St(6, 194, "mlflow.log_metrics", TRUE, {"mlflow"}, {},
          <<Lit("loss"), Var("loss"), Lit("accuracy"), Var("acc")>>, {}, {Experiment}) >>

LgbmTrial ==
    << Py(6, 162, "import", {}, Opaque({"accuracy_score", "log_loss"}, "module")),
       Call(6, 165, "preprocess_data",
            {"preprocess_data", "LabelEncoder", "train_test_split"},
            Opaque(SplitNames \cup {"enc"}, "array"), <<Var("df")>>),
       Py(6, 168, "assign", {}, Opaque({"params", "num_boost_round"}, "literal")),
       Call(6, 181, "mlflow.start_run", {"mlflow"}, Opaque({"run"}, "ActiveRun"), << >>),
       Call(6, 184, "mlflow.lightgbm.autolog", {"mlflow"}, {}, << >>),
       Call(6, 187, "train_model",
            {"train_model", "time", "lgb"} \cup SplitNames,
            {<<"model", <<Lit("Booster")>>>>, <<"train_time", <<Lit("seconds")>>>>},
            <<Var("params"), Var("num_boost_round")>>),
       St(6, 190, "mlflow.log_metric", TRUE, {"mlflow"}, {},
          <<Lit("training_time"), Var("train_time")>>, {}, {Experiment}),
       Call(6, 193, "evaluate_model",
            {"evaluate_model", "log_loss", "accuracy_score", "X_test", "y_test"},
            {<<"loss", <<Lit("log_loss")>>>>, <<"acc", <<Lit("accuracy_score")>>>>},
            <<Var("model")>>),
       St(6, 194, "mlflow.log_metrics", TRUE, {"mlflow"}, {},
          <<Lit("loss"), Var("loss"), Lit("accuracy"), Var("acc")>>, {}, {Experiment}),
       Call(6, 197, "mlflow.end_run", {"mlflow"}, {}, << >>) >>

LgbmProgram == LgbmSetup \o LgbmLoadData \o LgbmFunctions \o LgbmTrial

(***************************************************************************)
(* pytorch-prebuilt-docker-image.ipynb                                     *)
(***************************************************************************)
\* Environment(name=...) starts with the SDK's default environment variables
DefaultEnvVars == <<Lit("EXAMPLE_ENV_VAR"), Lit("EXAMPLE_VALUE")>>
ExtraRequirements == <<Lit("AZUREML_EXTRA_REQUIREMENTS_TXT"), Lit("requirements.txt")>>

PyTorchRegister ==
    << Py(1, 27, "import", {}, Opaque({"azureml"}, "module")),
       Py(2, 38, "import", {}, Opaque({"Workspace"}, "module")),
       St(2, 40, "Workspace.from_config", TRUE, {"Workspace"},
          Opaque({"ws"}, "Workspace"), << >>, {ConfigJson, Workspace}, {}),
       Py(3, 59, "import", {}, Opaque({"Model"}, "module")),
       St(3, 62, "Model.register", TRUE, {"Model"},
          Opaque({"model"}, "pytorch-birds-model"),
          <<Lit("pytorch-birds-model"), Lit("pytorch-birds/outputs/model.pt"), Var("ws")>>,
          {}, {ModelRes}),
       St(4, 98, "%%writefile", TRUE, {}, {}, <<Lit("requirements.txt")>>,
          {}, {RequirementsTxt}) >>

\* the environment cell, in the order of its statements
PyTorchEnvironment ==
    << Py(5, 130, "import", {}, Opaque({"Environment", "CondaDependencies"}, "module")),
       Py(5, 133, "Environment", {"Environment"},
          {<<"myenv", <<Lit("pytorch-deploy-prebuilt-example")>>>>,
           <<"myenv.environment_variables", DefaultEnvVars>>}),
       Py(5, 134, "assign", {"myenv"}, {}),
       St(5, 139, "myenv.register", TRUE, {"myenv"}, {},
          <<Var("myenv.environment_variables"), Var("ws")>>, {}, {EnvRes}),
       Py(5, 141, "assign", {"myenv"},
          {<<"myenv.environment_variables", ExtraRequirements>>}) >>

\* the deployment cell without the wait for the deployment
PyTorchDeployNoWait ==
    << Py(6, 198, "import", {},
          Opaque({"AciWebservice", "InferenceConfig", "Webservice", "Model"}, "module")),
       Call(6, 205, "InferenceConfig", {"InferenceConfig", "myenv"},
            {<<"inference_config",
               <<Lit("pytorch_score.py"), Var("myenv.environment_variables")>>>>},
            <<Lit("pytorch_score.py"), Var("myenv.environment_variables")>>),
       Call(6, 209, "AciWebservice.deploy_configuration", {"AciWebservice"},
            Opaque({"aciconfig"}, "AciServiceDeploymentConfiguration"),
            <<Lit("cpu_cores=2"), Lit("memory_gb=2")>>),
       St(6, 216, "Model.deploy", TRUE, {"Model"},
          Opaque({"service"}, "deploy-aci-pytorch"),
          <<Var("ws"), Lit("deploy-aci-pytorch"), Var("model"),
            Var("inference_config"), Var("aciconfig")>>,
          {ModelRes, RequirementsTxt}, {ServiceRes}),
       St(7, 252, "service.get_logs", TRUE, {}, {}, <<Var("service")>>,
          {ServiceRes}, {}),
       Py(8, 268, "print", {"service"}, {}) >>

PyTorchDeploy ==
    << Py(6, 198, "import", {},
          Opaque({"AciWebservice", "InferenceConfig", "Webservice", "Model"}, "module")),
       Call(6, 205, "InferenceConfig", {"InferenceConfig", "myenv"},
            {<<"inference_config",
               <<Lit("pytorch_score.py"), Var("myenv.environment_variables")>>>>},
            <<Lit("pytorch_score.py"), Var("myenv.environment_variables")>>),
       Call(6, 209, "AciWebservice.deploy_configuration", {"AciWebservice"},
            Opaque({"aciconfig"}, "AciServiceDeploymentConfiguration"),
            <<Lit("cpu_cores=2"), Lit("memory_gb=2")>>),
       St(6, 216, "Model.deploy", TRUE, {"Model"},
          Opaque({"service"}, "deploy-aci-pytorch"),
          <<Var("ws"), Lit("deploy-aci-pytorch"), Var("model"),
            Var("inference_config"), Var("aciconfig")>>,
          {ModelRes, RequirementsTxt}, {ServiceRes}),
       St(6, 224, "service.wait_for_deployment", TRUE, {}, {}, <<Var("service")>>,
          {ServiceRes}, {ServiceRes}),
       St(7, 252, "service.get_logs", TRUE, {}, {}, <<Var("service")>>,
          {ServiceRes}, {}),
       Py(8, 268, "print", {"service"}, {}) >>

\* the test cells without the import of Image from PIL
PyTorchTestNoImage ==
    << Py(9, 285, "import", {}, Opaque({"json", "plt"}, "module")),
       Call(9, 290, "plt.imshow", {"plt", "Image"}, {}, <<Lit("test_img.jpg")>>),
       Py(10, 299, "import", {}, Opaque({"torch", "transforms"}, "module")),
       Py(10, 303, "def", {}, Opaque({"preprocess"}, "function")),
       Call(11, 327, "preprocess", {"preprocess", "transforms", "Image", "torch"},
            Opaque({"input_data"}, "ndarray"), <<Lit("test_img.jpg")>>),
       St(11, 328, "service.run", TRUE, {"json"}, Opaque({"result"}, "prediction"),
          <<Var("service"), Var("input_data")>>, {ServiceRes}, {}),
       St(12, 346, "service.delete", TRUE, {}, {}, <<Var("service")>>,
          {}, {ServiceRes}) >>

PyTorchTest ==
    << Py(9, 285, "import", {}, Opaque({"json", "Image", "plt"}, "module")),
       Call(9, 290, "plt.imshow", {"plt", "Image"}, {}, <<Lit("test_img.jpg")>>),
       Py(10, 299, "import", {}, Opaque({"torch", "transforms"}, "module")),
       Py(10, 303, "def", {}, Opaque({"preprocess"}, "function")),
       Call(11, 327, "preprocess", {"preprocess", "transforms", "Image", "torch"},
            Opaque({"input_data"}, "ndarray"), <<Lit("test_img.jpg")>>),
       St(11, 328, "service.run", TRUE, {"json"}, Opaque({"result"}, "prediction"),
          <<Var("service"), Var("input_data")>>, {ServiceRes}, {}),
       St(12, 346, "service.delete", TRUE, {}, {}, <<Var("service")>>,
          {}, {ServiceRes}) >>

PyTorchProgram == PyTorchRegister \o PyTorchEnvironment \o PyTorchDeploy \o PyTorchTest

(***************************************************************************)
(* The Dask notebook (second notebook of the same source file)             *)
(***************************************************************************)
DaskPublic ==
    << Call(1, 391, "!pip install", {}, {},
            <<Lit("--upgrade dask distributed dask-sql bokeh adlfs fsspec fastparquet pyarrow python-snappy lz4 pandas>=1.2.0")>>),
       Py(2, 409, "import", {}, Opaque({"Workspace"}, "module")),
       St(2, 411, "Workspace.from_config", TRUE, {"Workspace"},
          Opaque({"ws"}, "Workspace"), << >>, {ConfigJson, Workspace}, {}),
       Py(3, 436, "import", {}, Opaque({"Client"}, "module")),
       Call(3, 439, "Client", {"Client"}, Opaque({"c"}, "Client"), << >>),
       Py(3, 442, "print", {"c"}, {}),
       Py(4, 468, "assign", {},
          {<<"account_name", <<Lit("azuremlexamples")>>>>,
           <<"container_name", <<Lit("datasets")>>>>}),
       Py(4, 471, "assign", {},
          {<<"storage_options", <<Lit("account_name"), Var("account_name")>>>>}),
       Py(5, 480, "assign", {},
          {<<"data_uri", <<Lit("https://"), Var("account_name"),
                           Lit(".blob.core.windows.net/"), Var("container_name"),
                           Lit("/iris.csv")>>>>}),
       Py(6, 490, "import", {}, Opaque({"pd"}, "module")),
       St(6, 492, "pd.read_csv", TRUE, {"pd"}, Opaque({"df"}, "DataFrame"),
          <<Var("data_uri")>>, {IrisCsv}, {}),
       Py(7, 509, "assign", {},
          {<<"data_uri", <<Lit("az://"), Var("container_name"), Lit("/iris.csv")>>>>}),
       Py(8, 519, "import", {}, Opaque({"pd"}, "module")),
       St(8, 521, "pd.read_csv", TRUE, {"pd"}, Opaque({"df"}, "DataFrame"),
          <<Var("data_uri"), Var("storage_options")>>, {IrisCsv}, {}) >>

DaskPrivate ==
    << Py(9, 553, "import", {}, Opaque({"AzureBlobFileSystem"}, "module")),
       St(9, 555, "ws.get_default_datastore", TRUE, {}, Opaque({"ds"}, "default datastore"),
          <<Var("ws")>>, {Workspace, DefaultDatastore}, {}),
       Py(9, 557, "assign", {"ds"},
          {<<"container_name", <<Lit("ds.container_name")>>>>,
           <<"storage_options", <<Lit("account_name"), Lit("ds.account_name"),
                                  Lit("account_key"), Lit("ds.account_key")>>>>}),
       Call(9, 563, "AzureBlobFileSystem", {"AzureBlobFileSystem"},
            {<<"fs", <<Lit("AzureBlobFileSystem"), Var("storage_options")>>>>},
            <<Var("storage_options")>>),
       St(10, 573, "fs.ls", TRUE, {}, {}, <<Var("fs"), Var("container_name")>>,
          {DefaultDatastore}, {}) >>

\* the open-data cells without the rebinding of storage_options
DaskOpenDataNoRebind ==
    << Py(11, 593, "assign", {},
          {<<"color", <<Lit("green")>>>>,
           <<"container_name", <<Lit("nyctlc")>>>>}),
       Call(12, 604, "AzureBlobFileSystem", {"AzureBlobFileSystem"},
            {<<"fs", <<Lit("AzureBlobFileSystem"), Var("storage_options")>>>>},
            <<Var("storage_options")>>),
       St(13, 614, "fs.ls", TRUE, {}, {}, <<Var("fs"), Var("container_name")>>,
          {NycTlc}, {}),
       St(14, 623, "fs.ls", TRUE, {}, {},
          <<Var("fs"), Var("container_name"), Lit("/"), Var("color")>>, {NycTlc}, {}),
       St(15, 632, "fs.ls", TRUE, {}, {},
          <<Var("fs"), Var("container_name"), Lit("/"), Var("color"),
            Lit("/puYear=2016/")>>, {NycTlc}, {}),
       St(16, 641, "fs.glob", TRUE, {}, Opaque({"files"}, "az://nyctlc/*.parquet"),
          <<Var("fs"), Var("container_name"), Lit("/"), Var("color"),
            Lit("/puYear=2016/puMonth=12/*.parquet")>>, {NycTlc}, {}),
       Py(17, 654, "import", {}, Opaque({"dd"}, "module")),
       St(17, 657, "dd.read_parquet", TRUE, {"dd", "c"}, Opaque({"ddf"}, "dask DataFrame"),
          <<Var("files"), Var("storage_options")>>, {NycTlc}, {}) >>

DaskOpenData ==
    << Py(11, 593, "assign", {},
          {<<"color", <<Lit("green")>>>>,
           <<"container_name", <<Lit("nyctlc")>>>>,
           <<"storage_options", <<Lit("account_name"), Lit("azureopendatastorage")>>>>}),
       Call(12, 604, "AzureBlobFileSystem", {"AzureBlobFileSystem"},
            {<<"fs", <<Lit("AzureBlobFileSystem"), Var("storage_options")>>>>},
            <<Var("storage_options")>>),
       St(13, 614, "fs.ls", TRUE, {}, {}, <<Var("fs"), Var("container_name")>>,
          {NycTlc}, {}),
       St(14, 623, "fs.ls", TRUE, {}, {},
          <<Var("fs"), Var("container_name"), Lit("/"), Var("color")>>, {NycTlc}, {}),
       St(15, 632, "fs.ls", TRUE, {}, {},
          <<Var("fs"), Var("container_name"), Lit("/"), Var("color"),
            Lit("/puYear=2016/")>>, {NycTlc}, {}),
       St(16, 641, "fs.glob", TRUE, {}, Opaque({"files"}, "az://nyctlc/*.parquet"),
          <<Var("fs"), Var("container_name"), Lit("/"), Var("color"),
            Lit("/puYear=2016/puMonth=12/*.parquet")>>, {NycTlc}, {}),
       Py(17, 654, "import", {}, Opaque({"dd"}, "module")),
       St(17, 657, "dd.read_parquet", TRUE, {"dd", "c"}, Opaque({"ddf"}, "dask DataFrame"),
          <<Var("files"), Var("storage_options")>>, {NycTlc}, {}) >>

DaskCompute ==
    << Call(18, 671, "len", {}, {}, <<Var("ddf")>>),
       Call(19, 681, "len", {}, {}, <<Var("ddf")>>),
       Call(20, 690, "ddf.info", {}, {}, <<Var("ddf")>>),
       Py(21, 699, "import", {}, Opaque({"plt"}, "module")),
       Call(21, 703, "ddf.compute.hist", {"plt"}, {}, <<Var("ddf"), Lit("tipAmount")>>),
       Call(22, 716, "ddf.compute", {}, Opaque({"df"}, "DataFrame"), <<Var("ddf")>>),
       Call(23, 727, "df.describe", {}, {}, <<Var("df")>>),
       Call(24, 737, "df.memory_usage", {}, Opaque({"gbs"}, "float"), <<Var("df")>>),
       Call(25, 748, "ddf.memory_usage.compute", {}, Opaque({"gbs"}, "float"),
            <<Var("ddf")>>) >>

DaskProgram == DaskPublic \o DaskPrivate \o DaskOpenData \o DaskCompute

(***************************************************************************)
(* The workflows: a job is a list of steps, each a call of the runner.     *)
(***************************************************************************)
SmokeSteps ==
    << Call(1, 15, "check out repo", {}, {}, <<Lit("actions/checkout@v2")>>),
       Call(2, 17, "setup python", {}, {}, <<Lit("actions/setup-python@v2"), Lit("3.8")>>),
       Call(3, 21, "pip install", {}, {}, <<Lit("pip install -r dev-requirements.txt")>>),
       Call(4, 23, "check code format", {}, {}, <<Lit("black --check .")>>),
       Call(5, 25, "check notebook format", {}, {},
            <<Lit("black-nb --clear-output --check .")>>) >>

\* setup.sh creates a workspace and compute targets (cli/prefix.md)
SetupWrites == {Workspace, Compute}

\* the job with the walkthrough step ahead of the workspace setup
CliStepsScriptFirst ==
    << Call(1, 16, "check out repo", {}, {}, <<Lit("actions/checkout@v2")>>),
       Call(2, 18, "azure login", {}, {}, <<Lit("azure/login@v1")>>),
       Call(3, 22, "install ml cli", {}, {}, <<Lit("az extension add -n ml -y")>>),
       St(6, 29, "test doc script", TRUE, {}, {},
          <<Lit("set -e; bash -x how-to-configure-cli.sh")>>, {Workspace}, {}),
       St(4, 24, "setup workspace", TRUE, {}, {}, <<Lit("bash setup.sh")>>,
          {}, SetupWrites),
       Call(5, 27, "docs installs", {}, {},
            <<Lit("sudo apt-get upgrade -y && sudo apt-get install uuid-runtime jq -y")>>) >>

CliSteps ==
    << Call(1, 16, "check out repo", {}, {}, <<Lit("actions/checkout@v2")>>),
       Call(2, 18, "azure login", {}, {}, <<Lit("azure/login@v1")>>),
       Call(3, 22, "install ml cli", {}, {}, <<Lit("az extension add -n ml -y")>>),
       St(4, 24, "setup workspace", TRUE, {}, {}, <<Lit("bash setup.sh")>>,
          {}, SetupWrites),
       Call(5, 27, "docs installs", {}, {},
            <<Lit("sudo apt-get upgrade -y && sudo apt-get install uuid-runtime jq -y")>>),
       St(6, 29, "test doc script", TRUE, {}, {},
          <<Lit("set -e; bash -x how-to-configure-cli.sh")>>, {Workspace}, {}) >>

Program(e) ==
    CASE e = "lgbm" -> LgbmProgram
      [] e = "pytorch" -> PyTorchProgram
      [] e = "dask" -> DaskProgram
      [] e = "smoke" -> SmokeSteps
      [] e = "cli" -> CliSteps

StmtNames(s) == StmtReads(s) \cup StmtBinds(s)

ProgramNames(e) == UNION {StmtNames(Program(e)[i]) : i \in 1..Len(Program(e))}

Names == UNION {ProgramNames(e) : e \in Examples}

(***************************************************************************)
(* Events and the `on:' section of the workflows.                          *)
(***************************************************************************)
\* a cron field: a literal value (step 0), or start/step
CronField(start, step) == [start |-> start, step |-> step]

CronFieldMatches(f, v) ==
    IF f.step = 0 THEN v = f.start
    ELSE v >= f.start /\ (v - f.start) % f.step = 0

AnyPath == {"**"}

\* the lint workflow with the schedule of the walkthrough workflow
SmokeOnEveryFourHours ==
    [push |-> {"main"}, pull_request |-> {"main"}, paths |-> AnyPath,
     minute |-> CronField(0, 0), hour |-> CronField(0, 4)]

SmokeOn ==
    [push |-> {"main"}, pull_request |-> {"main"}, paths |-> AnyPath,
     minute |-> CronField(0, 0), hour |-> CronField(0, 1)]

CliOn ==
    [push |-> {}, pull_request |-> {"main", "cli-preview"},
     paths |-> {"cli/how-to-configure-cli.sh",
                ".github/workflows/cli-docs-how-to-configure-cli.yml"},
     minute |-> CronField(0, 0), hour |-> CronField(0, 4)]

On(wf) == IF wf = "smoke" THEN SmokeOn ELSE CliOn

Branches == {"main", "cli-preview", "feature"}
Changes == {{"cli/how-to-configure-cli.sh"}, {"README.md"}}
Hours == 0..23
Minutes == {0, 30}

Event(type, branch, changed, hour, minute) ==
    [type |-> type, branch |-> branch, changed |-> changed,
     hour |-> hour, minute |-> minute]

NoEvent == Event("none", "", {}, 0, 0)

Events ==
    {Event("push", b, c, 0, 0) : b \in Branches, c \in Changes}
    \cup {Event("pull_request", b, c, 0, 0) : b \in Branches, c \in Changes}
    \cup {Event("schedule", "", {}, h, m) : h \in Hours, m \in Minutes}

PathsMatch(filter, changed) == filter = AnyPath \/ filter \cap changed # {}

\* whether the event starts a run of the workflow
Triggers(wf, ev) ==
    CASE ev.type = "push" ->
            ev.branch \in On(wf).push /\ PathsMatch(On(wf).paths, ev.changed)
      [] ev.type = "pull_request" ->
            ev.branch \in On(wf).pull_request /\ PathsMatch(On(wf).paths, ev.changed)
      [] ev.type = "schedule" ->
            CronFieldMatches(On(wf).minute, ev.minute)
            /\ CronFieldMatches(On(wf).hour, ev.hour)
      [] OTHER -> FALSE

(***************************************************************************)
(* Kernels and namespaces.  Every notebook is run by a kernel process of   *)
(* its own; names live in the kernel and survive a re-execution until the  *)
(* kernel is restarted.                                                    *)
(***************************************************************************)
\* every notebook attached to one kernel
KernelShared(e) == "lgbm"

KernelOf(e) == e

Kernels == {KernelOf(e) : e \in Examples}

EmptyNs == [n \in Names |-> Unbound]

Bound(env) == {n \in Names : env[n] # Unbound}

\* the namespace after the statement's assignments
NsAfter(env, s) ==
    [n \in Names |->
        IF n \in StmtBinds(s)
        THEN Resolve((CHOOSE b \in s.binds : b[1] = n)[2], env)
        ELSE env[n]]

Cur(e) == Program(e)[pc[e]]

(***************************************************************************)
(* The external services, as far as the examples observe them.             *)
(***************************************************************************)
MetricOps == {"mlflow.log_metric", "mlflow.log_metrics"}

\* whether the call can succeed in the current state of the services
OkPossible(e, s) ==
    CASE s.op = "Model.deploy" -> service = "absent"
      [] s.op = "service.wait_for_deployment" -> service \in {"transitioning", "healthy"}
      [] s.op = "service.run" -> service = "healthy"
      [] s.op = "service.get_logs" -> service # "absent"
      [] s.op = "service.delete" -> service # "absent"
      [] s.op = "mlflow.start_run" -> ~activeRun[KernelOf(e)]
      [] OTHER -> TRUE

\* the web service after a call; a failed Model.deploy may or may not have
\* created the service (partial)
ServiceAfter(op, ok, partial, svc) ==
    CASE op = "Model.deploy" ->
            IF ok THEN "transitioning"
            ELSE IF svc = "absent" /\ partial THEN "failed" ELSE svc
      [] op = "service.wait_for_deployment" ->
            IF ok THEN "healthy" ELSE IF svc = "absent" THEN svc ELSE "failed"
      [] op = "service.delete" -> IF ok THEN "absent" ELSE svc
      [] OTHER -> svc

\* the run as a `with mlflow.start_run():' block: a raise inside it ends the run
ActiveAfterWithBlock(op, ok, active) ==
    IF ~ok THEN FALSE
    ELSE CASE op = "mlflow.start_run" -> TRUE
           [] op = "mlflow.end_run" -> FALSE
           [] op \in MetricOps -> TRUE
           [] OTHER -> active

\* mlflow's active run after a call; logging with no active run starts one
ActiveAfter(op, ok, active) ==
    CASE op = "mlflow.start_run" -> IF ok THEN TRUE ELSE active
      [] op = "mlflow.end_run" -> IF ok THEN FALSE ELSE active
      [] op \in MetricOps -> IF ok THEN TRUE ELSE active
      [] OTHER -> active

\* a clean-up that deletes the registered model together with the web service
ModelsAfterDeleteWithService(op, ok, n) ==
    IF op = "Model.register" /\ ok THEN n + 1
    ELSE IF op = "service.delete" /\ ok /\ n > 0 THEN n - 1 ELSE n

ModelsAfter(op, ok, n) == IF op = "Model.register" /\ ok THEN n + 1 ELSE n

EnvsAfter(op, ok, env, registered) ==
    IF op = "myenv.register" /\ ok
    THEN registered \cup {Resolve(<<Var("myenv.environment_variables")>>, env)}
    ELSE registered

\* what the call saw of the services when it was issued
Context(e, s) ==
    CASE s.op = "Model.deploy" -> service
      [] s.op \in MetricOps \cup {"mlflow.start_run", "mlflow.end_run"} ->
            IF activeRun[KernelOf(e)] THEN "active" ELSE "inactive"
      [] OTHER -> ""

Entry(e, s, ok) ==
    [op |-> s.op, args |-> Resolve(s.args, ns[KernelOf(e)]),
     ctx |-> Context(e, s), ok |-> ok]

(***************************************************************************)
(* The walkthrough step of the cli workflow:                               *)
(*     run: set -e; bash -x how-to-configure-cli.sh                        *)
(* `set -e' is an option of the step's shell, not of the bash started for  *)
(* the script: that bash runs every command and exits with the status of   *)
(* the last one.                                                           *)
(***************************************************************************)
ScriptExit(res) == IF res[Len(res)] THEN 0 ELSE 1

StepExit(res) == ScriptExit(res)

\* the outcomes a statement can have: TRUE it returns, FALSE it raises
Outcomes(e, s) ==
    IF ~s.ext THEN {TRUE}
    ELSE IF s.op = "test doc script"
         THEN IF Len(scriptRes) = ScriptLen THEN {StepExit(scriptRes) = 0} ELSE {}
         ELSE IF ~OkPossible(e, s) THEN {FALSE}
              ELSE IF faults THEN {TRUE, FALSE} ELSE {TRUE}

\* a finally clause that cleans up what the notebook started
HandlerCleanup(e, s) ==
    IF e = "pytorch" /\ service # "absent" THEN "service.delete"
    ELSE IF e = "lgbm" /\ activeRun[KernelOf(e)] THEN "mlflow.end_run"
    ELSE ""

\* the except / finally handler around a statement: the call it makes when
\* the statement raises ("" for none; no cell of the notebooks has one)
Handler(e, s) == ""

(***************************************************************************)
(* Initial states.                                                         *)
(***************************************************************************)
Fresh ==
    /\ pc = [e \in Examples |-> 1]
    /\ status = [e \in Examples |-> "idle"]
    /\ err = [e \in Examples |-> ""]
    /\ exec = [e \in Examples |-> 0]
    /\ calls = [e \in Examples |-> << >>]
    /\ ns = [k \in Kernels |-> EmptyNs]
    /\ activeRun = [k \in Kernels |-> FALSE]
    /\ extFailed = [e \in Examples |-> FALSE]
    /\ service = "absent"
    /\ models = 0
    /\ envs = {}
    /\ resWriter = [r \in Resources |-> "none"]
    /\ foreign = [e \in Examples |-> {}]
    /\ lastEvent = [wf \in Workflows |-> NoEvent]
    /\ trig = [wf \in Workflows |-> NoEvent]
    /\ scriptRes = << >>

\* one example at a time, executed and re-executed
Init ==
    /\ focus \in {{e} : e \in Examples}
    /\ budget = MaxExecutions
    /\ faults = TRUE
    /\ Fresh

\* two examples against the same workspace, interleaved statement by statement,
\* each executed once with every external call succeeding
InitPairs ==
    /\ focus \in {F \in SUBSET Examples : Cardinality(F) = 2}
    /\ budget = 1
    /\ faults = FALSE
    /\ Fresh

(***************************************************************************)
(* Actions.                                                                *)
(***************************************************************************)
\* the user runs the notebook from its first cell in the current kernel
RunAll(nb) ==
    /\ nb \in focus \cap Notebooks
    /\ status[nb] # "running"
    /\ exec[nb] < budget
    /\ pc' = [pc EXCEPT ![nb] = 1]
    /\ status' = [status EXCEPT ![nb] = "running"]
    /\ err' = [err EXCEPT ![nb] = ""]
    /\ exec' = [exec EXCEPT ![nb] = @ + 1]
    /\ calls' = [calls EXCEPT ![nb] = << >>]
    /\ UNCHANGED <<focus, budget, faults, ns, activeRun, extFailed, service, models, envs,
                   resWriter, foreign, lastEvent, trig, scriptRes>>

\* the user restarts the kernel: its names and mlflow's process state are lost,
\* the workspace keeps what the notebook created
RestartKernel(nb) ==
    /\ nb \in focus \cap Notebooks
    /\ status[nb] \in {"done", "raised"}
    /\ status' = [status EXCEPT ![nb] = "idle"]
    /\ ns' = [ns EXCEPT ![KernelOf(nb)] = EmptyNs]
    /\ activeRun' = [activeRun EXCEPT ![KernelOf(nb)] = FALSE]
    /\ UNCHANGED <<focus, budget, faults, pc, err, exec, calls, extFailed, service, models,
                   envs, resWriter, foreign, lastEvent, trig, scriptRes>>

\* an event of the repository or of the clock: every workflow whose `on:'
\* section matches it starts a job on a fresh runner
Deliver(ev) ==
    LET wfs == focus \cap Workflows
        started == {wf \in wfs : Triggers(wf, ev)}
    IN  /\ wfs # {}
        /\ \A wf \in wfs : status[wf] # "running" /\ exec[wf] < budget
        /\ lastEvent' = [wf \in Workflows |-> IF wf \in wfs THEN ev ELSE lastEvent[wf]]
        /\ trig' = [wf \in Workflows |-> IF wf \in started THEN ev ELSE trig[wf]]
        /\ pc' = [e \in Examples |-> IF e \in started THEN 1 ELSE pc[e]]
        /\ status' = [e \in Examples |-> IF e \in started THEN "running" ELSE status[e]]
        /\ err' = [e \in Examples |-> IF e \in started THEN "" ELSE err[e]]
        /\ exec' = [e \in Examples |-> IF e \in started THEN exec[e] + 1 ELSE exec[e]]
        /\ calls' = [e \in Examples |-> IF e \in started THEN << >> ELSE calls[e]]
        /\ scriptRes' = IF "cli" \in started THEN << >> ELSE scriptRes
        /\ UNCHANGED <<focus, budget, faults, ns, activeRun, extFailed, service, models, envs,
                       resWriter, foreign>>

\* the resources the statement reads that another example wrote last
ForeignReads(e, s) == {r \in s.rreads : resWriter[r] \notin {"none", e}}

\* the statement returns
Return(e, s) ==
    LET k == KernelOf(e) IN
    /\ pc' = [pc EXCEPT ![e] = @ + 1]
    /\ status' = [status EXCEPT ![e] = IF pc[e] = Len(Program(e)) THEN "done" ELSE "running"]
    /\ calls' = [calls EXCEPT ![e] = IF s.ext THEN Append(@, Entry(e, s, TRUE)) ELSE @]
    /\ ns' = [ns EXCEPT ![k] = NsAfter(@, s)]
    /\ activeRun' = [activeRun EXCEPT ![k] = ActiveAfter(s.op, TRUE, @)]
    /\ service' = ServiceAfter(s.op, TRUE, FALSE, service)
    /\ models' = ModelsAfter(s.op, TRUE, models)
    /\ envs' = EnvsAfter(s.op, TRUE, ns[k], envs)
    /\ resWriter' = [r \in Resources |-> IF r \in s.rwrites THEN e ELSE resWriter[r]]
    /\ foreign' = [foreign EXCEPT ![e] = @ \cup ForeignReads(e, s)]
    /\ UNCHANGED <<focus, budget, faults, err, exec, extFailed, lastEvent, trig, scriptRes>>

\* the statement raises: the execution ends there, after the handler if any
Raise(e, s, partial) ==
    LET k == KernelOf(e)
        h == Handler(e, s)
        svc == ServiceAfter(s.op, FALSE, partial, service)
        act == ActiveAfter(s.op, FALSE, activeRun[k])
        issued == Append(calls[e], Entry(e, s, FALSE))
    IN
    /\ status' = [status EXCEPT ![e] = "raised"]
    /\ err' = [err EXCEPT ![e] = s.op]
    /\ extFailed' = [extFailed EXCEPT ![e] = TRUE]
    /\ calls' = [calls EXCEPT ![e] =
                    IF h = "" THEN issued
                    ELSE Append(issued, [op |-> h, args |-> << >>, ctx |-> "", ok |-> TRUE])]
    /\ service' = IF h = "" THEN svc ELSE ServiceAfter(h, TRUE, FALSE, svc)
    /\ activeRun' = [activeRun EXCEPT ![k] = IF h = "" THEN act ELSE ActiveAfter(h, TRUE, act)]
    /\ resWriter' = [r \in Resources |->
                        IF r = ServiceRes /\ r \in s.rwrites /\ service' # service
                        THEN e ELSE resWriter[r]]
    /\ foreign' = [foreign EXCEPT ![e] = @ \cup ForeignReads(e, s)]
    /\ UNCHANGED <<focus, budget, faults, pc, exec, ns, models, envs, lastEvent, trig, scriptRes>>

\* reading a name no earlier statement bound
NameError(e) ==
    /\ status' = [status EXCEPT ![e] = "raised"]
    /\ err' = [err EXCEPT ![e] = "NameError"]
    /\ UNCHANGED <<focus, budget, faults, pc, exec, calls, ns, activeRun, extFailed, service,
                   models, envs, resWriter, foreign, lastEvent, trig, scriptRes>>

Partials(s) == IF s.op = "Model.deploy" THEN BOOLEAN ELSE {FALSE}

\* the next statement of the notebook, or the next step of the job
Step(e) ==
    /\ e \in focus
    /\ status[e] = "running"
    /\ LET s == Cur(e) IN
       IF ~(StmtReads(s) \subseteq Bound(ns[KernelOf(e)]))
       THEN NameError(e)
       ELSE \E ok \in Outcomes(e, s), partial \in Partials(s) :
               IF ok THEN Return(e, s) ELSE Raise(e, s, partial)

\* the bash started for the walkthrough script runs its next command
ScriptCommand ==
    /\ "cli" \in focus
    /\ status["cli"] = "running"
    /\ Cur("cli").op = "test doc script"
    /\ Len(scriptRes) < ScriptLen
    /\ \E ok \in (IF faults THEN BOOLEAN ELSE {TRUE}) : scriptRes' = Append(scriptRes, ok)
    /\ UNCHANGED <<focus, budget, faults, pc, status, err, exec, calls, ns, activeRun, extFailed,
                   service, models, envs, resWriter, foreign, lastEvent, trig>>

Next ==
    \/ \E nb \in Notebooks : RunAll(nb)
    \/ \E nb \in Notebooks : RestartKernel(nb)
    \/ \E ev \in Events : Deliver(ev)
    \/ \E e \in Examples : Step(e)
    \/ ScriptCommand

Spec == Init /\ [][Next]_vars

SpecPairs == InitPairs /\ [][Next]_vars

\* the three notebooks side by side, each in its kernel, each executed once
InitNotebooks ==
    /\ focus = Notebooks
    /\ budget = 1
    /\ faults = TRUE
    /\ Fresh

NextNotebooks ==
    \/ \E nb \in Notebooks : RunAll(nb)
    \/ \E nb \in Notebooks : RestartKernel(nb)
    \/ \E nb \in Notebooks : Step(nb)

SpecNotebooks == InitNotebooks /\ [][NextNotebooks]_vars

(***************************************************************************)
(* Properties.                                                             *)
(***************************************************************************)
IsPrefix(a, b) == Len(a) <= Len(b) /\ \A i \in 1..Len(a) : a[i] = b[i]

Ops(cs) == [i \in 1..Len(cs) |-> cs[i].op]

AllOk(cs) == \A i \in 1..Len(cs) : cs[i].ok

\* every entry but the last returned
EarlierOk(cs) == \A i \in 1..Len(cs) : i < Len(cs) => cs[i].ok

Issued(e, op) == \E i \in 1..Len(calls[e]) : calls[e][i].op = op

Returned(e, op) == \E i \in 1..Len(calls[e]) : calls[e][i].op = op /\ calls[e][i].ok

LifecycleOps ==
    <<"Model.register", "Model.deploy", "service.wait_for_deployment",
      "service.run", "service.delete">>

IsLifecycleCall(c) == \E i \in 1..Len(LifecycleOps) : LifecycleOps[i] = c.op

\* C1: an execution of the PyTorch notebook issues Model.register, Model.deploy,
\* service.wait_for_deployment, service.run and service.delete in this order,
\* each at most once and each only after the one before it returned; when the
\* last cell has returned each was issued exactly once and the web service no
\* longer exists.
C1_DeployLifecycle ==
    LET cs == SelectSeq(calls["pytorch"], IsLifecycleCall) IN
    /\ IsPrefix(Ops(cs), LifecycleOps)
    /\ EarlierOk(cs)
    /\ Issued("pytorch", "service.run") => Returned("pytorch", "service.wait_for_deployment")
    /\ status["pytorch"] = "done" =>
          /\ Ops(cs) = LifecycleOps
          /\ AllOk(cs)
          /\ service = "absent"

C1_Witness ==
    /\ status["pytorch"] = "done"
    /\ Returned("pytorch", "service.run")
    /\ Returned("pytorch", "service.delete")
    /\ service = "absent"

TrackingOps ==
    <<"mlflow.start_run", "mlflow.log_metric", "mlflow.log_metrics", "mlflow.end_run">>

IsTrackingCall(c) == \E i \in 1..Len(TrackingOps) : TrackingOps[i] = c.op

IsMetricCall(c) == c.op \in MetricOps

\* C2: in an execution of the LightGBM notebook the run is started at most once
\* and ended at most once, in the order start_run, log_metric 'training_time',
\* log_metrics 'loss' and 'accuracy', end_run; every metric is logged while the
\* run is active; when the trial cell has returned the run was started once and
\* ended once and no run is active.
C2_MetricsInsideRun ==
    LET cs == SelectSeq(calls["lgbm"], IsTrackingCall)
        ms == SelectSeq(calls["lgbm"], IsMetricCall)
    IN
    /\ IsPrefix(Ops(cs), TrackingOps)
    /\ \A i \in 1..Len(ms) :
          /\ ms[i].ctx = "active"
          /\ Returned("lgbm", "mlflow.start_run")
          /\ ~Issued("lgbm", "mlflow.end_run")
             \/ calls["lgbm"][Len(calls["lgbm"])].op = "mlflow.end_run"
    /\ Len(ms) >= 1 => ms[1].args[1] = "training_time"
    /\ Len(ms) >= 2 => ms[2].args[1] = "loss" /\ ms[2].args[3] = "accuracy"
    /\ status["lgbm"] = "done" =>
          /\ Ops(cs) = TrackingOps
          /\ AllOk(cs)
          /\ ~activeRun[KernelOf("lgbm")]

C2_Witness ==
    /\ status["lgbm"] = "done"
    /\ Returned("lgbm", "mlflow.log_metrics")
    /\ Returned("lgbm", "mlflow.end_run")

\* C3: a notebook none of whose external calls raised has not raised, its next
\* statement reads only bound names and its next call can return: executed cell
\* by cell it reaches the end of its last cell.
C3_NotebooksRunToEnd ==
    \A nb \in Notebooks :
        ~extFailed[nb] =>
            /\ status[nb] # "raised"
            /\ status[nb] = "running" =>
                  /\ StmtReads(Cur(nb)) \subseteq Bound(ns[KernelOf(nb)])
                  /\ TRUE \in Outcomes(nb, Cur(nb))

C3_Witness == \A nb \in Notebooks : status[nb] = "done" /\ ~extFailed[nb]

\* C4: when an external call of a notebook raises, the execution stands at that
\* call with the error of that call, the call is the last one issued and every
\* call before it returned: nothing runs after it, neither mlflow.end_run nor
\* service.delete.
C4_RaiseEndsExecution ==
    \A nb \in Notebooks :
        status[nb] = "raised" /\ err[nb] # "NameError" =>
            LET cs == calls[nb] IN
            /\ Len(cs) > 0
            /\ ~cs[Len(cs)].ok
            /\ cs[Len(cs)].op = err[nb]
            /\ Cur(nb).op = err[nb]
            /\ EarlierOk(cs)

C4_Witness ==
    /\ status["pytorch"] = "raised"
    /\ err["pytorch"] = "service.wait_for_deployment"
    /\ service = "failed"
    /\ ~Issued("pytorch", "service.delete")

\* C5: in the cli workflow a failing command of the walkthrough script makes
\* the step 'test doc script' exit non-zero and the job fail, and the job
\* succeeds only if the script exits zero.
C5_ScriptFailureFailsJob ==
    LET ran == status["cli"] \in {"done", "raised"} /\ Len(scriptRes) = ScriptLen IN
    /\ ran /\ (\E i \in 1..Len(scriptRes) : ~scriptRes[i]) => status["cli"] = "raised"
    /\ status["cli"] = "done" => ScriptExit(scriptRes) = 0

IsDeployCall(c) == c.op = "Model.deploy"

\* C6: Model.deploy of 'deploy-aci-pytorch' is issued only when no web service
\* of that name exists, in a first execution and in every re-execution.
C6_DeployOnlyWhenAbsent ==
    LET ds == SelectSeq(calls["pytorch"], IsDeployCall) IN
    \A i \in 1..Len(ds) : ds[i].ctx = "absent"

HasRequirementsVar(v) ==
    \E i \in 1..Len(v) : v[i] = "AZUREML_EXTRA_REQUIREMENTS_TXT"
                         /\ i < Len(v) /\ v[i + 1] = "requirements.txt"

IsInferenceConfig(c) == c.op = "InferenceConfig"

\* C7: the environment names the requirements file wherever it is used: every
\* definition registered by myenv.register and every one passed to
\* InferenceConfig has AZUREML_EXTRA_REQUIREMENTS_TXT = 'requirements.txt'.
C7_EnvironmentNamesRequirements ==
    LET ics == SelectSeq(calls["pytorch"], IsInferenceConfig) IN
    /\ \A v \in envs : HasRequirementsVar(v)
    /\ \A i \in 1..Len(ics) : HasRequirementsVar(ics[i].args)

\* the calls an example issues, with their arguments, when it is executed alone
\* from a fresh kernel and every call returns
RECURSIVE AloneFrom(_, _, _)
AloneFrom(prog, i, env) ==
    IF i > Len(prog) THEN << >>
    ELSE (IF prog[i].ext
          THEN <<[op |-> prog[i].op, args |-> Resolve(prog[i].args, env)]>>
          ELSE << >>)
         \o AloneFrom(prog, i + 1, NsAfter(env, prog[i]))

AloneCalls == [e \in Examples |-> AloneFrom(Program(e), 1, EmptyNs)]

Issue(cs) == [i \in 1..Len(cs) |-> [op |-> cs[i].op, args |-> cs[i].args]]

SameCallsAsAlone(e) ==
    /\ IsPrefix(Issue(calls[e]), AloneCalls[e])
    /\ status[e] = "done" => Issue(calls[e]) = AloneCalls[e]

SmokeOrder ==
    <<"check out repo", "setup python", "pip install", "check code format",
      "check notebook format">>

StartsSmoke(ev) ==
    \/ ev.type = "push" /\ ev.branch = "main"
    \/ ev.type = "pull_request" /\ ev.branch = "main"
    \/ ev.type = "schedule" /\ ev.minute = 0

\* C9: the job of workflow smoke runs checkout, setup python, pip install,
\* black --check, black-nb --clear-output --check in this order, a step only
\* after all earlier steps succeeded; the job succeeds only if both format
\* checks succeeded; every push to main, every pull request to main and every
\* full hour starts it.
C9_SmokeWorkflow ==
    LET cs == calls["smoke"] IN
    /\ IsPrefix(Ops(cs), SmokeOrder)
    /\ EarlierOk(cs)
    /\ IsPrefix(Issue(cs), AloneCalls["smoke"])
    /\ status["smoke"] = "done" =>
          /\ Returned("smoke", "check code format")
          /\ Returned("smoke", "check notebook format")
    /\ StartsSmoke(lastEvent["smoke"]) =>
          /\ trig["smoke"] = lastEvent["smoke"]
          /\ status["smoke"] # "idle"

C9_Witness ==
    /\ status["smoke"] = "done"
    /\ trig["smoke"].type = "schedule"
    /\ trig["smoke"].hour = 7
    /\ Returned("smoke", "check notebook format")

CliOrder ==
    <<"check out repo", "azure login", "install ml cli", "setup workspace",
      "docs installs", "test doc script">>

\* C10: the job of the cli workflow runs checkout, azure login, install ml cli,
\* setup workspace, docs installs, test doc script in this order, and the
\* walkthrough script runs a command only when the login, the extension
\* install and setup.sh succeeded in the same job.
C10_CliWorkflow ==
    LET cs == calls["cli"] IN
    /\ IsPrefix(Ops(cs), CliOrder)
    /\ EarlierOk(cs)
    /\ scriptRes # << >> \/ Issued("cli", "test doc script") =>
          /\ Returned("cli", "azure login")
          /\ Returned("cli", "install ml cli")
          /\ Returned("cli", "setup workspace")

C10_Witness ==
    /\ status["cli"] = "done"
    /\ Len(scriptRes) = ScriptLen
    /\ Returned("cli", "test doc script")

\* the names bound by the statements of the notebook before statement i
BoundBefore(nb, i) == UNION {StmtBinds(Program(nb)[j]) : j \in 1..(i - 1)}

\* the names the notebooks' cells read from earlier cells
CellNames ==
    {"ws", "df", "model", "myenv", "service", "Image", "preprocess",
     "storage_options", "container_name", "fs", "files", "ddf", "c",
     "preprocess_data", "train_model", "evaluate_model"}

\* C11: in every execution of a notebook, the first one and re-executions, in
\* the same kernel or in a restarted one, after returns and after raises, the
\* statements already executed have bound their names and every name the next
\* statement reads is among them; no execution ends in a NameError.
C11_NamesBoundBeforeRead ==
    \A nb \in Notebooks :
        /\ err[nb] # "NameError"
        /\ status[nb] = "running" =>
              /\ BoundBefore(nb, pc[nb]) \subseteq Bound(ns[KernelOf(nb)])
              /\ StmtReads(Cur(nb)) \subseteq BoundBefore(nb, pc[nb])
        /\ CellNames \subseteq Names

\* a re-execution in a restarted kernel stands at service.run, which reads
\* service and input_data bound by the cells before it
C11_Witness ==
    /\ status["pytorch"] = "running"
    /\ exec["pytorch"] = 2
    /\ Cur("pytorch").op = "service.run"
    /\ Bound(ns[KernelOf("pytorch")]) = BoundBefore("pytorch", pc["pytorch"])
    /\ {"service", "input_data"} \subseteq StmtReads(Cur("pytorch"))

\* the calls of the trial cell between mlflow.start_run and mlflow.end_run
InRunOps == {"train_model", "mlflow.log_metric", "evaluate_model", "mlflow.log_metrics"}

\* the statement of the LightGBM notebook that starts the run
StartRunAt == CHOOSE i \in 1..Len(LgbmProgram) : LgbmProgram[i].op = "mlflow.start_run"

\* an execution of the LightGBM notebook ended by a raise inside the run
RaisedInRun == status["lgbm"] = "raised" /\ err["lgbm"] \in InRunOps

\* after a raise inside the run, the run was started by this execution, was not
\* ended and is active
RunLeftActive ==
    RaisedInRun =>
        /\ Returned("lgbm", "mlflow.start_run")
        /\ ~Issued("lgbm", "mlflow.end_run")
        /\ activeRun[KernelOf("lgbm")]

\* a re-execution in the same kernel keeps the run active up to mlflow.start_run,
\* which is then called in the state the failed execution left
ReExecutionStartsRunWhileActive ==
    LET k == KernelOf("lgbm")
        cs == calls'["lgbm"]
    IN
    /\ RaisedInRun /\ status'["lgbm"] = "running" =>
          pc'["lgbm"] = 1 /\ activeRun'[k]
    /\ status["lgbm"] = "running" /\ pc["lgbm"] < StartRunAt =>
          activeRun'[k] = activeRun[k]
    /\ status["lgbm"] = "running" /\ pc["lgbm"] = StartRunAt /\ cs # calls["lgbm"] =>
          /\ cs[Len(cs)].op = "mlflow.start_run"
          /\ cs[Len(cs)].ctx = IF activeRun[k] THEN "active" ELSE "inactive"
          /\ activeRun[k] => exec["lgbm"] >= 2 /\ activeRun'[k]

\* C12: when train_model, mlflow.log_metric, evaluate_model or
\* mlflow.log_metrics raises after mlflow.start_run returned, mlflow.end_run is
\* not executed and the run stays active; a re-execution in the same kernel
\* then calls mlflow.start_run while that run is still active.
C12_FailedRunStaysActive ==
    []RunLeftActive /\ [][ReExecutionStartsRunWhileActive]_vars

\* the re-execution has called mlflow.start_run with the earlier run active
C12_Witness ==
    LET cs == calls["lgbm"] IN
    /\ exec["lgbm"] = 2
    /\ Len(cs) > 0
    /\ cs[Len(cs)].op = "mlflow.start_run"
    /\ cs[Len(cs)].ctx = "active"
    /\ activeRun[KernelOf("lgbm")]

\* the PyTorch notebook has run to its end and no call of it ever raised
CompleteExecutions == status["pytorch"] = "done" /\ ~extFailed["pytorch"]

\* after complete executions the web service is gone, every execution has left
\* one registration of the model and the environment is registered
RegistrationsStay ==
    CompleteExecutions =>
        /\ Returned("pytorch", "service.delete")
        /\ service = "absent"
        /\ models = exec["pytorch"]
        /\ envs # {}

\* no step removes a registration; a step that removes the web service is the
\* return of service.delete and leaves the registrations as they are; a
\* returning Model.register adds exactly one
OnlyServiceRemoved ==
    LET cs == calls'["pytorch"] IN
    /\ models' >= models
    /\ envs \subseteq envs'
    /\ service # "absent" /\ service' = "absent" =>
          /\ cs # calls["pytorch"]
          /\ cs[Len(cs)].op = "service.delete"
          /\ models' = models
          /\ envs' = envs
    /\ models' # models =>
          /\ cs # calls["pytorch"]
          /\ cs[Len(cs)].op = "Model.register"
          /\ models' = models + 1

\* C13: the only remote resource the PyTorch notebook removes is the web
\* service: service.delete leaves the registrations of 'pytorch-birds-model'
\* and of environment 'pytorch-deploy-prebuilt-example' in the workspace, each
\* complete execution adds one more registration of the model and none is
\* ever deleted.
C13_RegistrationsAccumulate ==
    []RegistrationsStay /\ [][OnlyServiceRemoved]_vars

\* two complete executions: two registrations of the model, no web service
C13_Witness ==
    /\ CompleteExecutions
    /\ exec["pytorch"] = 2
    /\ models = 2
    /\ envs # {}
    /\ service = "absent"
    /\ Returned("pytorch", "service.delete")

\* the statements of the notebook that bind the name
BindsAt(nb, n) == {i \in 1..Len(Program(nb)) : n \in StmtBinds(Program(nb)[i])}

\* the bindings of storage_options and of container_name, in file order
StorageOptionsBindings ==
    << <<"account_name", "azuremlexamples">>,
       <<"account_name", "ds.account_name", "account_key", "ds.account_key">>,
       <<"account_name", "azureopendatastorage">> >>

ContainerNameBindings == << <<"datasets">>, <<"ds.container_name">>, <<"nyctlc">> >>

\* whether the value holds the account key of the default datastore
HasAccountKey(v) == \E i \in 1..Len(v) : v[i] \in {"account_key", "ds.account_key"}

\* the number of AzureBlobFileSystem objects built by the calls before call i
FileSystemsBefore(cs, i) ==
    Cardinality({j \in 1..(i - 1) : cs[j].op = "AzureBlobFileSystem" /\ cs[j].ok})

\* the value of the name is the one bound by the latest binding before the
\* next statement
InForce(n, bindings) ==
    LET k == Cardinality({j \in BindsAt("dask", n) : j < pc["dask"]}) IN
    k > 0 => ns[KernelOf("dask")][n] = bindings[k]

\* C14: in the Dask notebook storage_options and container_name are bound three
\* times (account 'azuremlexamples', the default datastore with its
\* account_key, account 'azureopendatastorage'), a read sees the latest binding,
\* and the account key is passed only to the first AzureBlobFileSystem and is
\* used only through that filesystem: it is in no argument of the second
\* AzureBlobFileSystem, of a call on the second filesystem, of fs.glob, of
\* dd.read_parquet or of pd.read_csv.
C14_AccountKeyOnlyToDatastore ==
    LET cs == calls["dask"] IN
    /\ Cardinality(BindsAt("dask", "storage_options")) = Len(StorageOptionsBindings)
    /\ Cardinality(BindsAt("dask", "container_name")) = Len(ContainerNameBindings)
    /\ status["dask"] = "running" =>
          /\ InForce("storage_options", StorageOptionsBindings)
          /\ InForce("container_name", ContainerNameBindings)
    /\ \A i \in 1..Len(cs) :
          /\ cs[i].op = "AzureBlobFileSystem" =>
                /\ FileSystemsBefore(cs, i) < 2
                /\ cs[i].args = StorageOptionsBindings[FileSystemsBefore(cs, i) + 2]
          /\ HasAccountKey(cs[i].args) =>
                \/ cs[i].op = "AzureBlobFileSystem" /\ FileSystemsBefore(cs, i) = 0
                \/ cs[i].op = "fs.ls" /\ FileSystemsBefore(cs, i) = 1
          /\ cs[i].op \in {"fs.glob", "dd.read_parquet"} =>
                /\ FileSystemsBefore(cs, i) = 2
                /\ \E j \in 1..Len(cs[i].args) : cs[i].args[j] = "azureopendatastorage"

\* the notebook has run to its end: the first filesystem was built with the
\* account key, the second one and dd.read_parquet without it
C14_Witness ==
    LET cs == calls["dask"] IN
    /\ status["dask"] = "done"
    /\ Returned("dask", "dd.read_parquet")
    /\ \E i, j \in 1..Len(cs) :
          /\ i < j
          /\ cs[i].op = "AzureBlobFileSystem" /\ HasAccountKey(cs[i].args)
          /\ cs[j].op = "AzureBlobFileSystem" /\ ~HasAccountKey(cs[j].args)

====
